---------------------------- MODULE Spec2Model ----------------------------
(***************************************************************************)
(* FreebiesBot (src/main.js): a timer-driven pipeline that fetches two     *)
(* storefront sources, filters the items against the persisted notified    *)
(* keys, posts the unseen ones to a webhook in batches of 10 and records    *)
(* them in notified.json.                                                   *)
(*                                                                         *)
(* Spec        the whole process: main, the run guard, timer ticks and the  *)
(*             steps of run_once (one step per await).                      *)
(* SpecDeliver send_discord_embeds alone, on 0..MaxMsgs messages.           *)
(* SpecKey     derive_item_key alone, on pairs of items.                    *)
(***************************************************************************)
EXTENDS Integers, Sequences, FiniteSets, TLC

VARIABLES
  webhook_url,     \* process.env.DISCORD_WEBHOOK_URL
  notify_role_id,  \* process.env.NOTIFY_ROLE
  main_pc,         \* position of main(): boot, first_run, timer, exited
  exit_code,       \* process exit status, -1 while the process lives
  is_running,      \* the run guard of run_safely
  active,          \* number of run_once invocations in flight
  ticks,           \* timer ticks fired so far
  file,            \* content of notified.json
  pc,              \* position of the current run / of the function under test
  state,           \* run_once's in-memory state
  loaded,          \* the state as load_state returned it at the start of the run
  file_at_start,   \* the file as it was when the run started
  epic,            \* fetch_epic_freebies' promise: [done, failed, items]
  steam,           \* fetch_steam_freebies' promise: [done, failed, items]
  items,           \* the merged item list
  new_items,       \* filter_new_items' result
  embeds,          \* the messages handed to send_discord_embeds
  batches,         \* send_discord_embeds: chunk_array's result
  batch_i,         \* send_discord_embeds: the loop index i
  delivered,       \* send_discord_embeds: the delivered counter
  calls,           \* bodies of the webhook calls completed in this delivery
  now,             \* the clock: it advances by one with every run started
  outcome,         \* how the last run ended
  save_failed,     \* the last finished run's save_state logged 'Failed to persist state'
  prev_unseen,     \* the unseen items of the last run, when its delivery failed
  probe,           \* SpecKey: the pair of items handed to derive_item_key
  probe_keys,      \* SpecKey: the keys derived for them
  feed_offer,      \* SpecFeed: the offer of the feed's response
  feed_now,        \* SpecFeed: new Date() in fetch_epic_freebies
  feed_results,    \* SpecFeed: the results the adapter built
  send_result,     \* SpecDeliver: what send_discord_embeds gave its caller
  posted_before,   \* history: the keys in the completed webhook calls of earlier runs
  writes_failed    \* history: some writeFileSync of save_state has failed

vars == <<webhook_url, notify_role_id, main_pc, exit_code, is_running, active,
          ticks, file, pc, state, loaded, file_at_start, epic, steam, items,
          new_items, embeds, batches, batch_i, delivered, calls, now, outcome,
          save_failed, prev_unseen, probe, probe_keys, feed_offer, feed_now,
          feed_results, send_result, posted_before, writes_failed>>

---------------------------------------------------------------------------
(* Bounds of the model *)

\* timer ticks per behaviour
MaxTicks == 2
\* rows of a source's response
MaxRows == 2
\* messages handed to send_discord_embeds in SpecDeliver
MaxMsgs == 23
\* embedded ids and URL variants of the items of SpecKey
MaxKeyApp == 2
MaxKeyVariant == 2
\* SpecFeed: promotional windows of an offer, and the instants of their dates
MaxWindows == 2
MaxTime == 2

\* send_discord_embeds: chunk_array(embeds, 10)
BatchLimit == 10

---------------------------------------------------------------------------
(* Values *)

\* JavaScript's undefined, for an environment variable that is not set
Undefined == "undefined"
Truthy_of_empty(v) == v # Undefined

Truthy(v) == v \notin {Undefined, ""}

\* A URL is kept as what derive_item_key can tell of it: app is the number
\* that /\/app\/(\d+)/ captures (0: the pattern does not occur), variant
\* tells apart the URLs that agree on it (slug, locale, query).
Url(a, v) == [app |-> a, variant |-> v]
Item(s, u) == [source |-> s, url |-> u]

\* the URLs the sources offer: one feed page, and two listing URLs of one product
EpicUrls == {Url(0, 1)}
SteamUrls == {Url(1, 1), Url(1, 2)}

SeqsUpTo(S, n) == UNION {[1..k -> S] : k \in 0..n}

\* a listing of more rows than one webhook call carries
LongPage == [i \in 1..(BatchLimit + 1) |-> Url(i, 1)]

FetchErrors == {"network", "timeout", "parse"}
\* what a source answers: the URLs of the rows (offers) it lists, or an error
EpicResponses ==
  {[error |-> "none", rows |-> r] : r \in SeqsUpTo(EpicUrls, MaxRows)}
    \cup {[error |-> e, rows |-> << >>] : e \in FetchErrors}
SteamResponses ==
  {[error |-> "none", rows |-> r] : r \in SeqsUpTo(SteamUrls, MaxRows) \cup {LongPage}}
    \cup {[error |-> e, rows |-> << >>] : e \in FetchErrors}

NoKeys == [k \in {} |-> 0]
\* notified.json: kind tells what the file holds, nk is its notified_keys
\* mapping (key -> notified_at) when it holds one
File(kind, nk) == [kind |-> kind, nk |-> nk]
FileKinds == {"missing", "unreadable", "bad_json", "not_object", "keys_absent",
              "keys_scalar", "keys_null", "keys_array", "map"}

RoleIds == {Undefined, "", "42"}
WebhookUrls == {Undefined, "", "https://hook"}

---------------------------------------------------------------------------
(* The functions of src/main.js *)

RECURSIVE chunk_from(_, _, _)
chunk_from(input_array, size, i) ==
  IF i >= Len(input_array) THEN << >>
  ELSE LET last == IF i + size < Len(input_array) THEN i + size ELSE Len(input_array)
       IN <<SubSeq(input_array, i + 1, last)>> \o chunk_from(input_array, size, i + size)

chunk_array_full_only(input_array, size) ==
  [k \in 1..(Len(input_array) \div size) |->
     SubSeq(input_array, (k - 1) * size + 1, k * size)]

chunk_array(input_array, size) == chunk_from(input_array, size, 0)

\* typeof parsed.notified_keys
TypeofNotifiedKeys(kind) ==
  CASE kind = "keys_absent" -> "undefined"
    [] kind = "keys_scalar" -> "string"
    [] kind \in {"keys_null", "keys_array", "map"} -> "object"
    [] OTHER -> "undefined"

EmptyState == [keys |-> "object", nk |-> NoKeys]

\* the state's keys field tells what notified_keys is: "object", "array" or "null"
load_state(f) ==
  IF f.kind = "missing" THEN EmptyState                 \* existsSync is false
  ELSE IF f.kind \in {"unreadable", "bad_json"} THEN EmptyState   \* catch (_) {}
  ELSE IF f.kind = "not_object" THEN EmptyState         \* parsed && typeof parsed === 'object'
  ELSE IF TypeofNotifiedKeys(f.kind) = "object"
       THEN [keys |-> CASE f.kind = "keys_null" -> "null"
                        [] f.kind = "keys_array" -> "array"
                        [] OTHER -> "object",
             nk |-> f.nk]
       ELSE EmptyState

save_state_truncates(f, st, write_ok) ==
  IF ~write_ok THEN File("bad_json", NoKeys)
  ELSE IF st.keys = "array" THEN File("keys_array", NoKeys)
  ELSE File("map", st.nk)

\* JSON.stringify keeps an object's keys and drops the named properties of an array
save_state(f, st, write_ok) ==
  IF ~write_ok THEN f
  ELSE IF st.keys = "array" THEN File("keys_array", NoKeys)
  ELSE File("map", st.nk)

\* `steam_app_${match[1]}`
AppKey(id) == [kind |-> "app", source |-> "steam", app |-> id, variant |-> 0]
\* `${item.source}:${item.url}`
UrlKey(item) == [kind |-> "source_url", source |-> item.source,
                 app |-> item.url.app, variant |-> item.url.variant]

derive_item_key_no_match_check(item) ==
  IF item.source = "Steam" THEN AppKey(item.url.app) ELSE UrlKey(item)

derive_item_key_feed(item) ==
  IF item.source = "Epic Games" /\ item.url.app # 0 THEN AppKey(item.url.app)
  ELSE UrlKey(item)

derive_item_key(item) ==
  IF item.source = "Steam" /\ item.url.app # 0 THEN AppKey(item.url.app)
  ELSE UrlKey(item)

Tagged(item) == [source |-> item.source, url |-> item.url,
                 internal_key |-> derive_item_key(item)]
Untagged(t) == Item(t.source, t.url)

\* state.notified_keys[key], -1 standing for undefined
Lookup(st, key) == IF key \in DOMAIN st.nk THEN st.nk[key] ELSE -1

RECURSIVE filter_from(_, _, _)
filter_from(its, st, i) ==
  IF i > Len(its) THEN << >>
  ELSE (IF Lookup(st, derive_item_key(its[i])) = -1 THEN <<Tagged(its[i])>> ELSE << >>)
         \o filter_from(its, st, i + 1)

filter_keeps_seen(its, st) == [i \in 1..Len(its) |-> Tagged(its[i])]

filter_new_items(its, st) == filter_from(its, st, 1)

\* new Map(results.map(r => [r.url, r])): one entry per URL, at the place of
\* its first occurrence
RECURSIVE uniqueByUrl(_)
uniqueByUrl(rows) ==
  IF rows = << >> THEN << >>
  ELSE LET init == uniqueByUrl(SubSeq(rows, 1, Len(rows) - 1))
           r == rows[Len(rows)]
       IN IF \E i \in 1..Len(init) : init[i] = r THEN init ELSE Append(init, r)

\* An offer of the feed, as far as the adapter reads it: slug tells how its
\* page slug resolves ("p/x": productSlug starts with p/; "mapping": through
\* a productHome mapping; "none": neither), windows are the promotionalOffers
\* after flatMap, each with its dates (0: the date is absent) and the value
\* of discountSetting.discountPercentage.
Window(st, en, d) == [start |-> st, end |-> en, discount |-> d]
NoOffer == [slug |-> "none", windows |-> << >>]
Discounts == {"0", "10", "null", "undefined"}
Slugs == {"p/x", "mapping", "none"}

\* Number(discount); -1 stands for NaN
ToNumber(d) ==
  CASE d = "0" -> 0
    [] d = "10" -> 10
    [] d = "null" -> 0
    [] OTHER -> -1

\* start && end && now >= start && now < end && Number(discount) === 0
IsActiveFree(w, t) ==
  w.start # 0 /\ w.end # 0 /\ t >= w.start /\ t < w.end /\ ToNumber(w.discount) = 0

\* current.find(...): the index of the first such window, 0 when there is none
FindActive(ws, t) ==
  IF \E i \in 1..Len(ws) : IsActiveFree(ws[i], t)
  THEN CHOOSE i \in 1..Len(ws) :
         /\ IsActiveFree(ws[i], t)
         /\ \A j \in 1..(i - 1) : ~IsActiveFree(ws[j], t)
  ELSE 0

\* the page slug, "" when none resolves
PageSlug(offer) ==
  CASE offer.slug = "p/x" -> "x"
    [] offer.slug = "mapping" -> "m"
    [] OTHER -> ""

\* the body of the loop over the offers: the results the offer adds
select_offer(offer, t) ==
  IF FindActive(offer.windows, t) = 0 THEN << >>            \* if (!active) continue
  ELSE IF PageSlug(offer) = "" THEN << >>                   \* if (!pageSlug) continue
  ELSE <<[source |-> "Epic Games", page |-> PageSlug(offer),
          ends_at |-> offer.windows[FindActive(offer.windows, t)].end]>>

fetch_epic_keeps_results(resp) ==
  IF resp.error # "none"
  THEN [done |-> TRUE, failed |-> TRUE, items |-> <<Item("Epic Games", Url(0, 1))>>]
  ELSE LET u == uniqueByUrl(resp.rows)
       IN [done |-> TRUE, failed |-> FALSE,
           items |-> [i \in 1..Len(u) |-> Item("Epic Games", u[i])]]

fetch_epic_freebies(resp) ==
  IF resp.error # "none" THEN [done |-> TRUE, failed |-> TRUE, items |-> << >>]
  ELSE LET u == uniqueByUrl(resp.rows)
       IN [done |-> TRUE, failed |-> FALSE,
           items |-> [i \in 1..Len(u) |-> Item("Epic Games", u[i])]]

fetch_steam_freebies(resp) ==
  IF resp.error # "none" THEN [done |-> TRUE, failed |-> TRUE, items |-> << >>]
  ELSE [done |-> TRUE, failed |-> FALSE,
        items |-> [i \in 1..Len(resp.rows) |-> Item("Steam", resp.rows[i])]]

Pending == [done |-> FALSE, failed |-> FALSE, items |-> << >>]

build_discord_embeds(its) ==
  [i \in 1..Len(its) |->
     [url |-> its[i].url,
      color |-> IF its[i].source = "Epic Games" THEN 16753920 ELSE 3447003,
      footer |-> its[i].source]]

\* the key of the item a message was built from
EmbedKey(e) == derive_item_key(Item(e.footer, e.url))

\* the internal keys of the items whose embeds the calls cs carried
CallKeys(cs) == {EmbedKey(cs[k].embeds[j]) : <<k, j>> \in
                   {<<k, j>> \in (1..Len(cs)) \X (1..BatchLimit) : j <= Len(cs[k].embeds)}}

\* what a call of send_discord_embeds gives its caller: nothing yet, the
\* object { delivered } it returned, or the error it threw
NoResult == [kind |-> "pending", delivered |-> -1]
\* return { delivered }
SendReturn(d) == [kind |-> "returned", delivered |-> d]

SendThrow_returns_count(d) == [kind |-> "returned", delivered |-> d]

\* the rejection of await axios.post(...) leaves the function; its local
\* delivered goes with the frame
SendThrow(d) == [kind |-> "thrown", delivered |-> -1]

RequestBody_every_batch(batch, i, role) ==
  [embeds |-> batch, mention |-> Truthy(role)]

\* the body of the i-th webhook call (i counts from 0)
RequestBody(batch, i, role) ==
  [embeds |-> batch, mention |-> (Truthy(role) /\ i = 0)]

MarkNotified_restamps(st, news, t) ==
  [st EXCEPT !.nk = [k \in (DOMAIN st.nk) \cup {news[i].internal_key : i \in 1..Len(news)}
                       |-> t]]

MarkNotified_first(st, news, t) ==
  [st EXCEPT !.nk = [k \in (DOMAIN st.nk) \cup {news[1].internal_key} |->
                       IF k = news[1].internal_key THEN t ELSE st.nk[k]]]

\* state.notified_keys[item.internal_key] = { notified_at: ... } for every new item
MarkNotified(st, news, t) ==
  LET ks == {news[i].internal_key : i \in 1..Len(news)}
  IN [st EXCEPT !.nk = [k \in (DOMAIN st.nk) \cup ks |->
                          IF k \in ks THEN t ELSE st.nk[k]]]

---------------------------------------------------------------------------
(* The process: main, run_safely, run_once *)

runVars == <<pc, state, loaded, file_at_start, epic, steam, items, new_items,
             embeds, batches, batch_i, delivered, calls, now, outcome,
             save_failed>>
probeVars == <<probe, probe_keys, feed_offer, feed_now, feed_results, send_result>>
envVars == <<webhook_url, notify_role_id>>
histVars == <<posted_before, writes_failed>>

InitFiles ==
  {File(k, NoKeys) : k \in FileKinds}
    \cup {File("map", [k \in {AppKey(1)} |-> 0])}

IdleRun ==
  /\ state = EmptyState
  /\ loaded = EmptyState
  /\ epic = Pending
  /\ steam = Pending
  /\ items = << >>
  /\ new_items = << >>
  /\ embeds = << >>
  /\ batches = << >>
  /\ batch_i = 0
  /\ delivered = 0
  /\ calls = << >>
  /\ now = 0
  /\ outcome = "none"
  /\ save_failed = FALSE
  /\ prev_unseen = {}
  /\ probe = << >>
  /\ probe_keys = << >>
  /\ feed_offer = NoOffer
  /\ feed_now = 0
  /\ feed_results = << >>
  /\ send_result = NoResult
  /\ posted_before = {}
  /\ writes_failed = FALSE

Init ==
  /\ webhook_url \in WebhookUrls
  /\ notify_role_id \in {Undefined, "42"}
  /\ main_pc = "boot"
  /\ exit_code = -1
  /\ is_running = FALSE
  /\ active = 0
  /\ ticks = 0
  /\ file \in InitFiles
  /\ file_at_start = file
  /\ pc = "idle"
  /\ IdleRun

SkipsAlways(flag) == FALSE

\* run_safely: if (is_running) { ...; return }
Skips(flag) == flag

\* run_safely sets the guard and run_once runs up to its first await:
\* load_state(), then both fetches are started
BeginRun ==
  /\ is_running' = TRUE
  /\ active' = active + 1
  /\ now' = now + 1
  /\ state' = load_state(file)
  /\ loaded' = load_state(file)
  /\ file_at_start' = file
  /\ epic' = Pending
  /\ steam' = Pending
  /\ items' = << >>
  /\ new_items' = << >>
  /\ embeds' = << >>
  /\ batches' = << >>
  /\ batch_i' = 0
  /\ delivered' = 0
  /\ calls' = << >>
  /\ outcome' = "running"
  /\ pc' = "fetching"
  /\ posted_before' = posted_before \cup CallKeys(calls)
  /\ UNCHANGED <<file, prev_unseen, save_failed, writes_failed>>

\* run_once returns or its catch has logged; finally { is_running = false };
\* main, when it awaited the first run, goes on to setInterval
Finish(how) ==
  /\ pc' = "idle"
  /\ outcome' = how
  /\ is_running' = FALSE
  /\ active' = active - 1
  /\ main_pc' = IF main_pc = "first_run" THEN "timer" ELSE main_pc

\* main(): the configuration check, then await run_safely()
MainStart ==
  /\ main_pc = "boot"
  /\ UNCHANGED <<envVars, ticks, probeVars>>
  /\ IF ~Truthy(webhook_url)
     THEN /\ main_pc' = "exited"
          /\ exit_code' = 1
          /\ UNCHANGED <<is_running, active, file, prev_unseen, runVars, histVars>>
     ELSE /\ main_pc' = "first_run"
          /\ exit_code' = exit_code
          /\ BeginRun

\* setInterval(run_safely, interval_ms) fires
Tick ==
  /\ main_pc = "timer"
  /\ ticks < MaxTicks
  /\ ticks' = ticks + 1
  /\ UNCHANGED <<envVars, main_pc, exit_code, probeVars>>
  /\ IF Skips(is_running)
     THEN UNCHANGED <<is_running, active, file, prev_unseen, runVars, histVars>>
     ELSE BeginRun

run_once_catch_saves(f, st, news, t) == save_state(f, MarkNotified(st, news, t), TRUE)

\* catch (error) { console.error('Error during check:', error.message) }
run_once_catch(f, st, news, t) == f

\* run_once after Promise.all: merge, filter, and either return or build the
\* embeds and start send_discord_embeds up to its first axios.post
AfterFetch(e, s) ==
  LET its == e.items \o s.items IN
  /\ items' = its
  /\ UNCHANGED <<state, loaded, file_at_start, now, delivered, calls>>
  /\ IF state.keys = "null" /\ its # << >>
     THEN \* state.notified_keys[key] throws a TypeError, caught by run_once
          /\ file' = run_once_catch(file, state, << >>, now)
          /\ Finish("filter_error")
          /\ save_failed' = FALSE
          /\ prev_unseen' = {}
          /\ UNCHANGED <<new_items, embeds, batches, batch_i>>
     ELSE LET news == filter_new_items(its, state) IN
          /\ new_items' = news
          /\ IF news = << >>
             THEN /\ Finish("no_new")
                  /\ save_failed' = FALSE
                  /\ prev_unseen' = {}
                  /\ UNCHANGED <<file, embeds, batches, batch_i>>
             ELSE /\ embeds' = build_discord_embeds(news)
                  /\ batches' = chunk_array(build_discord_embeds(news), BatchLimit)
                  /\ batch_i' = 0
                  /\ pc' = "posting"
                  /\ UNCHANGED <<file, prev_unseen, outcome, is_running, active,
                                 main_pc, save_failed>>

\* the feed request settles
EpicReturns ==
  /\ pc = "fetching"
  /\ ~epic.done
  /\ UNCHANGED <<envVars, exit_code, ticks, probeVars, histVars, steam>>
  /\ \E resp \in EpicResponses :
       LET e == fetch_epic_freebies(resp) IN
       /\ epic' = e
       /\ IF steam.done
          THEN AfterFetch(e, steam)
          ELSE UNCHANGED <<main_pc, is_running, active, file, prev_unseen, pc,
                           state, loaded, file_at_start, items, new_items, embeds,
                           batches, batch_i, delivered, calls, now, outcome,
                           save_failed>>

\* the listing request settles
SteamReturns ==
  /\ pc = "fetching"
  /\ ~steam.done
  /\ UNCHANGED <<envVars, exit_code, ticks, probeVars, histVars, epic>>
  /\ \E resp \in SteamResponses :
       LET s == fetch_steam_freebies(resp) IN
       /\ steam' = s
       /\ IF epic.done
          THEN AfterFetch(epic, s)
          ELSE UNCHANGED <<main_pc, is_running, active, file, prev_unseen, pc,
                           state, loaded, file_at_start, items, new_items, embeds,
                           batches, batch_i, delivered, calls, now, outcome,
                           save_failed>>

HasMoreBatches_never(bs, i) == FALSE

\* for (let i = 0; i < batches.length; i++), after the i-th post
HasMoreBatches(bs, i) == i + 1 < Len(bs)

\* axios.post resolves: delivered += batch.length, then the next post, or
\* send_discord_embeds returns and run_once records the keys and saves
PostOk ==
  /\ pc = "posting"
  /\ UNCHANGED <<envVars, exit_code, ticks, probeVars, posted_before, epic, steam, items,
                 new_items, embeds, batches, loaded, file_at_start, now>>
  /\ calls' = Append(calls, RequestBody(batches[batch_i + 1], batch_i, notify_role_id))
  /\ delivered' = delivered + Len(batches[batch_i + 1])
  /\ IF HasMoreBatches(batches, batch_i)
     THEN /\ batch_i' = batch_i + 1
          /\ UNCHANGED <<main_pc, is_running, active, file, prev_unseen, pc, state,
                         outcome, save_failed, writes_failed>>
     ELSE \E write_ok \in BOOLEAN :
          /\ state' = MarkNotified(state, new_items, now)
          /\ file' = save_state(file, MarkNotified(state, new_items, now), write_ok)
          /\ save_failed' = ~write_ok
          /\ writes_failed' = (writes_failed \/ ~write_ok)
          /\ prev_unseen' = {}
          /\ batch_i' = batch_i
          /\ Finish("sent")

\* axios.post rejects: the error leaves send_discord_embeds and is caught by
\* run_once
PostFail ==
  /\ pc = "posting"
  /\ UNCHANGED <<envVars, exit_code, ticks, probeVars, histVars, epic, steam, items,
                 new_items, embeds, batches, batch_i, delivered, calls, state,
                 loaded, file_at_start, now>>
  /\ file' = run_once_catch(file, state, new_items, now)
  /\ save_failed' = FALSE
  /\ prev_unseen' = {Untagged(new_items[i]) : i \in 1..Len(new_items)}
  /\ Finish("post_error")

Next ==
  \/ MainStart
  \/ Tick
  \/ EpicReturns
  \/ SteamReturns
  \/ PostOk
  \/ PostFail

Spec == Init /\ [][Next]_vars

\* What the scheduling guarantees: main runs, and each source request settles,
\* axios.get being called with timeout: 20000. axios.post is called without a
\* timeout, so nothing makes a webhook call settle.
Fairness ==
  /\ WF_vars(MainStart)
  /\ WF_vars(EpicReturns)
  /\ WF_vars(SteamReturns)

\* the process started with its configuration set and no notified.json yet
InitLive ==
  /\ Init
  /\ webhook_url = "https://hook"
  /\ notify_role_id = Undefined
  /\ file = File("missing", NoKeys)

SpecLive == InitLive /\ [][Next]_vars /\ Fairness

TypeOK ==
  /\ main_pc \in {"boot", "first_run", "timer", "exited"}
  /\ pc \in {"idle", "fetching", "posting"}
  /\ is_running \in BOOLEAN
  /\ active \in 0..1
  /\ ticks \in 0..MaxTicks
  /\ file.kind \in FileKinds
  /\ outcome \in {"none", "running", "no_new", "sent", "filter_error", "post_error"}

---------------------------------------------------------------------------
(* send_discord_embeds on its own: SpecDeliver *)

\* n distinct items
NItems(n) == [i \in 1..n |-> Item("Steam", Url(i, 1))]

InitDeliver ==
  /\ webhook_url = "https://hook"
  /\ notify_role_id \in RoleIds
  /\ main_pc = "timer"
  /\ exit_code = -1
  /\ is_running = TRUE
  /\ active = 1
  /\ ticks = MaxTicks
  /\ file = File("missing", NoKeys)
  /\ file_at_start = file
  /\ pc = "send_called"
  /\ state = EmptyState
  /\ loaded = EmptyState
  /\ epic = Pending
  /\ steam = Pending
  /\ items = << >>
  /\ new_items = << >>
  /\ \E n \in 0..MaxMsgs : embeds = build_discord_embeds(NItems(n))
  /\ batches = << >>
  /\ batch_i = 0
  /\ delivered = 0
  /\ calls = << >>
  /\ now = 0
  /\ outcome = "none"
  /\ save_failed = FALSE
  /\ prev_unseen = {}
  /\ probe = << >>
  /\ probe_keys = << >>
  /\ feed_offer = NoOffer
  /\ feed_now = 0
  /\ feed_results = << >>
  /\ send_result = NoResult
  /\ posted_before = {}
  /\ writes_failed = FALSE

deliverFrame == <<webhook_url, notify_role_id, main_pc, exit_code, is_running,
                  active, ticks, file, state, loaded, file_at_start, epic, steam,
                  items, new_items, embeds, now, outcome, save_failed,
                  prev_unseen, probe, probe_keys, feed_offer, feed_now,
                  feed_results, histVars>>

\* send_discord_embeds up to its first await
SendCalled ==
  /\ pc = "send_called"
  /\ UNCHANGED <<deliverFrame, calls, delivered, batch_i>>
  /\ IF Len(embeds) = 0
     THEN /\ pc' = "send_returned"
          /\ batches' = batches
          /\ send_result' = SendReturn(0)
     ELSE /\ pc' = "send_awaiting"
          /\ batches' = chunk_array(embeds, BatchLimit)
          /\ send_result' = send_result

\* axios.post resolves
SendPostOk ==
  /\ pc = "send_awaiting"
  /\ UNCHANGED <<deliverFrame, batches>>
  /\ calls' = Append(calls, RequestBody(batches[batch_i + 1], batch_i, notify_role_id))
  /\ delivered' = delivered + Len(batches[batch_i + 1])
  /\ IF HasMoreBatches(batches, batch_i)
     THEN /\ batch_i' = batch_i + 1
          /\ pc' = pc
          /\ send_result' = send_result
     ELSE /\ batch_i' = batch_i
          /\ pc' = "send_returned"
          /\ send_result' = SendReturn(delivered + Len(batches[batch_i + 1]))

\* axios.post rejects: the error leaves send_discord_embeds
SendPostFail ==
  /\ pc = "send_awaiting"
  /\ UNCHANGED <<deliverFrame, batches, batch_i, delivered, calls>>
  /\ pc' = "send_thrown"
  /\ send_result' = SendThrow(delivered)

NextDeliver ==
  \/ SendCalled
  \/ SendPostOk
  \/ SendPostFail

SpecDeliver == InitDeliver /\ [][NextDeliver]_vars

---------------------------------------------------------------------------
(* derive_item_key on its own: SpecKey *)

KeyUrls == {Url(a, v) : a \in 0..MaxKeyApp, v \in 1..MaxKeyVariant}
KeyItems == {Item(s, u) : s \in {"Epic Games", "Steam"}, u \in KeyUrls}

InitKey ==
  /\ webhook_url = "https://hook"
  /\ notify_role_id = Undefined
  /\ main_pc = "timer"
  /\ exit_code = -1
  /\ is_running = FALSE
  /\ active = 0
  /\ ticks = MaxTicks
  /\ file = File("missing", NoKeys)
  /\ file_at_start = file
  /\ pc = "key_called"
  /\ state = EmptyState
  /\ loaded = EmptyState
  /\ epic = Pending
  /\ steam = Pending
  /\ items = << >>
  /\ new_items = << >>
  /\ embeds = << >>
  /\ batches = << >>
  /\ batch_i = 0
  /\ delivered = 0
  /\ calls = << >>
  /\ now = 0
  /\ outcome = "none"
  /\ save_failed = FALSE
  /\ prev_unseen = {}
  /\ probe \in KeyItems \X KeyItems
  /\ probe_keys = << >>
  /\ feed_offer = NoOffer
  /\ feed_now = 0
  /\ feed_results = << >>
  /\ send_result = NoResult
  /\ posted_before = {}
  /\ writes_failed = FALSE

DeriveKeys ==
  /\ pc = "key_called"
  /\ pc' = "key_returned"
  /\ probe_keys' = <<derive_item_key(probe[1]), derive_item_key(probe[2])>>
  /\ UNCHANGED <<webhook_url, notify_role_id, main_pc, exit_code, is_running,
                 active, ticks, file, state, loaded, file_at_start, epic, steam,
                 items, new_items, embeds, batches, batch_i, delivered, calls,
                 now, outcome, save_failed, prev_unseen, probe, feed_offer,
                 feed_now, feed_results, send_result, histVars>>

NextKey == DeriveKeys

SpecKey == InitKey /\ [][NextKey]_vars

---------------------------------------------------------------------------
(* The offer selection of fetch_epic_freebies on its own: SpecFeed *)

\* dates in order, or one of them absent
Windows == {Window(st, en, d) : <<st, en>> \in
              {x \in (0..MaxTime) \X (0..MaxTime) : x[1] = 0 \/ x[2] = 0 \/ x[1] < x[2]},
            d \in Discounts}
Offers == {[slug |-> sl, windows |-> ws] : sl \in Slugs, ws \in SeqsUpTo(Windows, MaxWindows)}

InitFeed ==
  /\ webhook_url = "https://hook"
  /\ notify_role_id = Undefined
  /\ main_pc = "timer"
  /\ exit_code = -1
  /\ is_running = TRUE
  /\ active = 1
  /\ ticks = MaxTicks
  /\ file = File("missing", NoKeys)
  /\ file_at_start = file
  /\ pc = "feed_called"
  /\ state = EmptyState
  /\ loaded = EmptyState
  /\ epic = Pending
  /\ steam = Pending
  /\ items = << >>
  /\ new_items = << >>
  /\ embeds = << >>
  /\ batches = << >>
  /\ batch_i = 0
  /\ delivered = 0
  /\ calls = << >>
  /\ now = 0
  /\ outcome = "none"
  /\ save_failed = FALSE
  /\ prev_unseen = {}
  /\ probe = << >>
  /\ probe_keys = << >>
  /\ feed_offer \in Offers
  /\ feed_now \in 1..MaxTime
  /\ feed_results = << >>
  /\ send_result = NoResult
  /\ posted_before = {}
  /\ writes_failed = FALSE

\* the loop of fetch_epic_freebies over the one offer
FeedSelects ==
  /\ pc = "feed_called"
  /\ pc' = "feed_returned"
  /\ feed_results' = select_offer(feed_offer, feed_now)
  /\ UNCHANGED <<webhook_url, notify_role_id, main_pc, exit_code, is_running,
                 active, ticks, file, state, loaded, file_at_start, epic, steam,
                 items, new_items, embeds, batches, batch_i, delivered, calls,
                 now, outcome, save_failed, prev_unseen, probe, probe_keys,
                 feed_offer, feed_now, send_result, histVars>>

NextFeed == FeedSelects

SpecFeed == InitFeed /\ [][NextFeed]_vars

---------------------------------------------------------------------------
(* Claims *)

\* a run of run_once has finished and no other has started since
RunEnded == pc = "idle" /\ outcome \notin {"none", "running"}
\* filter_new_items has returned in the current (or last) run
FilterReturned == epic.done /\ steam.done /\ outcome # "filter_error"
KeysOf(news) == {news[i].internal_key : i \in 1..Len(news)}

\* C1: at most one run is in flight; a timer tick that arrives while a run is
\* in flight changes nothing of the run, the guard or the file (it starts no
\* run and does not disturb the one in flight), and a run only ever starts in
\* the step of a tick or of main's first call, with the guard clear (a skipped
\* tick is not made up for later).
C1_OneRunInFlight ==
  [][/\ active' <= 1
     /\ (is_running' <=> active' = 1)
     /\ (ticks' # ticks /\ is_running
           => UNCHANGED <<is_running, active, file, prev_unseen, runVars>>)
     /\ (now' # now
           => /\ ~is_running
              /\ ticks' # ticks \/ main_pc = "boot")]_vars

\* C1 witness: a run is posting, undisturbed, although a tick arrived after it
\* started (more ticks than runs started by ticks)
C1_TickSkippedMidRun ==
  /\ is_running
  /\ pc = "posting"
  /\ ticks > now - 1

\* C2: the step in which a delivery failure ends the run leaves notified.json
\* as it was when the run started, and in the next run every item that was
\* unseen in the failed run and is offered again is returned by the filter.
C2_FailedDeliveryKeepsUnseen ==
  [][/\ (pc = "posting" /\ outcome' = "post_error")
           => file' = file /\ file' = file_at_start
     /\ (pc = "fetching" /\ pc' # "fetching" /\ prev_unseen # {})
           => \A i \in 1..Len(items') :
                items'[i] \in prev_unseen
                  => \E j \in 1..Len(new_items') : new_items'[j] = Tagged(items'[i])]_vars

\* C2 witness: the run after a failed delivery posts an item of the failed run
\* again
C2_RetriedAfterFailure ==
  /\ pc = "posting"
  /\ prev_unseen # {}
  /\ \E j \in 1..Len(new_items) : Untagged(new_items[j]) \in prev_unseen

\* C3 as stated: after a run in which at least one batch was delivered (the
\* write of the file did not fail and notified_keys was loaded as a mapping),
\* notified.json holds the keys of the items delivered.
C3_PartialSuccessRecorded ==
  (RunEnded /\ calls # << >> /\ ~save_failed /\ loaded.keys = "object")
    => CallKeys(calls) \subseteq DOMAIN file.nk

\* C3 amended: after a run in which every batch was delivered, the state holds
\* a record for the key of every unseen item and is what save_state was given
\* (with the write succeeding and notified_keys loaded as a mapping,
\* notified.json holds exactly that state); after a run in which a batch
\* failed, whether or not earlier batches were delivered, the file is as it
\* was when the run started.
C3_FullSuccessRecorded ==
  /\ (RunEnded /\ outcome = "sent")
       => /\ KeysOf(new_items) \subseteq DOMAIN state.nk
          /\ \A k \in KeysOf(new_items) : state.nk[k] = now
          /\ CallKeys(calls) = KeysOf(new_items)
          /\ (~save_failed /\ loaded.keys = "object") => file = File("map", state.nk)
  /\ (RunEnded /\ outcome = "post_error") => file = file_at_start

\* C3 witness: a delivery of several batches succeeded and was persisted
C3_TwoBatchesRecorded ==
  /\ RunEnded
  /\ outcome = "sent"
  /\ Len(calls) >= 2
  /\ ~save_failed
  /\ KeysOf(new_items) \subseteq DOMAIN file.nk

Unseen(item) == derive_item_key(item) \notin DOMAIN loaded.nk

\* C4: once the filter has returned, new_items is the subsequence of the merged
\* items whose derived key has no record in the loaded state, in input order,
\* each with its derived key as internal_key; the items are still the merged
\* adapter results and, until the delivery is over, the state is still as
\* loaded; no message of a completed call has a key of the loaded state.
C4_FilterExact ==
  FilterReturned
    => /\ new_items = [i \in 1..Len(SelectSeq(items, Unseen)) |->
                         [source |-> SelectSeq(items, Unseen)[i].source,
                          url |-> SelectSeq(items, Unseen)[i].url,
                          internal_key |-> derive_item_key(SelectSeq(items, Unseen)[i])]]
       /\ items = epic.items \o steam.items
       /\ (pc = "posting" => state = loaded)
       /\ CallKeys(calls) \cap DOMAIN loaded.nk = {}

\* C4 witness: the filter dropped a seen item and kept an unseen one, and the
\* unseen one was posted
C4_SomeSeenSomeNew ==
  /\ FilterReturned
  /\ new_items # << >>
  /\ Len(new_items) < Len(items)
  /\ calls # << >>

RECURSIVE Flatten(_)
\* the messages of the calls, in call order
Flatten(cs) == IF cs = << >> THEN << >> ELSE cs[1].embeds \o Flatten(Tail(cs))

\* C5: the calls of a delivery are made one after another (the call in flight
\* is the one after the completed ones), every completed call carries at most
\* 10 messages and exactly 10 unless it is the last batch, the completed calls
\* carry the first `delivered` messages in order, and when a delivery of n > 0
\* messages has returned, it has made ceil(n/10) calls whose messages
\* concatenate to the input.
C5_BatchesInOrder ==
  /\ pc = "send_awaiting" => batch_i = Len(calls) /\ Len(calls) < Len(batches)
  /\ \A k \in 1..Len(calls) :
       /\ Len(calls[k].embeds) <= 10
       /\ Len(calls[k].embeds) >= 1
       /\ (k * 10 < Len(embeds) => Len(calls[k].embeds) = 10)
  /\ delivered <= Len(embeds)
  /\ Flatten(calls) = SubSeq(embeds, 1, delivered)
  /\ (pc = "send_returned" /\ Len(embeds) > 0)
       => /\ Len(calls) = (Len(embeds) + 9) \div 10
          /\ Flatten(calls) = embeds

\* C5 witness: 23 messages were delivered in calls of 10, 10 and 3
C5_TwentyThree ==
  /\ pc = "send_returned"
  /\ Len(embeds) = 23
  /\ Len(calls) = 3
  /\ Len(calls[1].embeds) = 10
  /\ Len(calls[2].embeds) = 10
  /\ Len(calls[3].embeds) = 3

\* C6: a completed call carries the mention directive exactly when it is the
\* first call of the delivery and a (non-empty) mention identifier is configured.
C6_MentionFirstOnly ==
  \A k \in 1..Len(calls) :
    calls[k].mention <=> (k = 1 /\ notify_role_id \notin {Undefined, ""})

\* C6 witness: with a role configured, the first of several calls carried the
\* mention and the second did not
C6_SecondCallPlain ==
  /\ notify_role_id = "42"
  /\ Len(calls) >= 2
  /\ calls[1].mention
  /\ ~calls[2].mention

\* C7 as stated: whatever notified.json holds, the state load_state returned
\* has a notified_keys mapping that keys can be looked up in, and it is the
\* empty state unless the file held a key-to-record mapping.
C7_LoadAlwaysValid ==
  pc # "idle"
    => /\ loaded.keys = "object"
       /\ (file_at_start.kind # "map" => loaded = EmptyState)

\* C8: a failed adapter has yielded the empty sequence and the run goes on
\* while the other request is pending; the merged list is the two results, so
\* with one adapter failed the run filters the other's items, posts the unseen
\* ones and records their keys; with both failed the run ends normally with no
\* call made and the file as it was.
C8_AdaptersFailSoft ==
  /\ epic.failed => epic.items = << >>
  /\ steam.failed => steam.items = << >>
  /\ (pc = "fetching" /\ (epic.failed \/ steam.failed))
       => is_running /\ outcome = "running"
  /\ (epic.done /\ steam.done) => items = epic.items \o steam.items
  /\ (FilterReturned /\ epic.failed /\ ~steam.failed)
       => /\ new_items = filter_new_items(steam.items, loaded)
          /\ (outcome = "sent"
                => /\ Flatten(calls) = build_discord_embeds(new_items)
                   /\ KeysOf(new_items) \subseteq DOMAIN state.nk)
  /\ (FilterReturned /\ steam.failed /\ ~epic.failed)
       => /\ new_items = filter_new_items(epic.items, loaded)
          /\ (outcome = "sent"
                => /\ Flatten(calls) = build_discord_embeds(new_items)
                   /\ KeysOf(new_items) \subseteq DOMAIN state.nk)
  /\ (epic.failed /\ steam.failed /\ epic.done /\ steam.done)
       => /\ pc = "idle"
          /\ outcome = "no_new"
          /\ ~is_running
          /\ calls = << >>
          /\ file = file_at_start

\* C8 witness: the feed failed, and the listing's items were posted and their
\* keys persisted
C8_OneSourceDown ==
  /\ RunEnded
  /\ outcome = "sent"
  /\ epic.failed
  /\ ~steam.failed
  /\ steam.items # << >>
  /\ ~save_failed
  /\ KeysOf(new_items) \subseteq DOMAIN file.nk

C10_FeedUsesAppId ==
  pc = "key_returned"
    => /\ \A k \in 1..2 :
            /\ (probe[k].source = "Epic Games" /\ probe[k].url.app # 0)
                 => probe_keys[k].kind = "app" /\ probe_keys[k].app = probe[k].url.app
            /\ probe[k].source = "Steam" => probe_keys[k] = UrlKey(probe[k])
       /\ (/\ probe[1].source = "Epic Games"
           /\ probe[2].source = "Epic Games"
           /\ probe[1].url.app # 0
           /\ probe[1].url.app = probe[2].url.app)
            => probe_keys[1] = probe_keys[2]

\* C10 amended: a listing (Steam) item whose URL embeds /app/<digits> gets the
\* key steam_app_<id>, so two listing items with one id get one key whatever
\* the rest of their URLs; every feed (Epic Games) item, and a listing item
\* without such an id, gets "<source>:<url>", which differs for different URLs.
C10_ListingUsesAppId ==
  pc = "key_returned"
    => /\ \A k \in 1..2 :
            /\ (probe[k].source = "Steam" /\ probe[k].url.app # 0)
                 => probe_keys[k] = [kind |-> "app", source |-> "steam",
                                     app |-> probe[k].url.app, variant |-> 0]
            /\ (probe[k].source = "Epic Games" \/ probe[k].url.app = 0)
                 => probe_keys[k] = [kind |-> "source_url", source |-> probe[k].source,
                                     app |-> probe[k].url.app,
                                     variant |-> probe[k].url.variant]
       /\ (/\ probe[1].source = "Steam"
           /\ probe[2].source = "Steam"
           /\ probe[1].url.app # 0
           /\ probe[1].url.app = probe[2].url.app)
            => probe_keys[1] = probe_keys[2]
       /\ (/\ probe[1].source = "Epic Games"
           /\ probe[2].source = "Epic Games"
           /\ probe[1].url # probe[2].url)
            => probe_keys[1] # probe_keys[2]

\* C10 witness: two listing items with one embedded id and different URLs got
\* one key
C10_SameIdSameKey ==
  /\ pc = "key_returned"
  /\ probe[1].source = "Steam"
  /\ probe[2].source = "Steam"
  /\ probe[1].url.app # 0
  /\ probe[1].url.app = probe[2].url.app
  /\ probe[1].url # probe[2].url
  /\ probe_keys[1] = probe_keys[2]

\* C11: an item of either source whose URL embeds no /app/<digits> gets
\* exactly "<source>:<url>", so two such items get one key only when they are
\* one item, and the same item handed in twice gets the same key twice.
C11_FallbackKey ==
  pc = "key_returned"
    => /\ \A k \in 1..2 :
            probe[k].url.app = 0
              => /\ probe_keys[k].kind = "source_url"
                 /\ probe_keys[k].source = probe[k].source
                 /\ probe_keys[k].app = 0
                 /\ probe_keys[k].variant = probe[k].url.variant
       /\ (probe[1].url.app = 0 /\ probe[2].url.app = 0 /\ probe[1] # probe[2])
            => probe_keys[1] # probe_keys[2]
       /\ probe[1] = probe[2] => probe_keys[1] = probe_keys[2]

\* C11 witness: a listing item and a feed item without an embedded id, with
\* the same URL, got their two fallback keys
C11_BothSourcesFallBack ==
  /\ pc = "key_returned"
  /\ probe[1].source = "Steam"
  /\ probe[2].source = "Epic Games"
  /\ probe[1].url.app = 0
  /\ probe[1].url = probe[2].url
  /\ probe_keys[1] # probe_keys[2]

\* C12 as stated: the feed adapter selects an offer exactly when one of its
\* windows has start <= now < end and a discount percentage that is exactly 0.
C12_SelectedIffFreeWindow ==
  pc = "feed_returned"
    => (feed_results # << >>
          <=> \E i \in 1..Len(feed_offer.windows) :
                LET w == feed_offer.windows[i] IN
                /\ w.start # 0
                /\ w.end # 0
                /\ w.start <= feed_now
                /\ feed_now < w.end
                /\ w.discount = "0")

C14_ExitsBeforeAnyRun ==
  webhook_url \in {Undefined, ""}
    => /\ main_pc \in {"boot", "exited"}
       /\ main_pc = "exited" => exit_code = 1
       /\ main_pc = "boot" => exit_code = -1
       /\ ~is_running
       /\ pc = "idle"
       /\ outcome = "none"
       /\ now = 0
       /\ ticks = 0
       /\ state = EmptyState
       /\ loaded = EmptyState
       /\ epic = Pending
       /\ steam = Pending
       /\ calls = << >>
       /\ file = file_at_start

\* C14 witness: the process has exited with status 1
C14_Exited ==
  /\ webhook_url \in {Undefined, ""}
  /\ main_pc = "exited"
  /\ exit_code = 1

\* the messages of the calls that completed, counted
CountOf(cs) == Len(Flatten(cs))

\* C15 as stated: when a batch call fails, the caller is given a delivered
\* count, and it is the count of the batches that completed before the failure.
C15_CountGivenOnFailure ==
  pc = "send_thrown"
    => /\ send_result.kind = "returned"
       /\ send_result.delivered = CountOf(calls)

\* C15 amended: when a batch call fails the error reaches the caller, the
\* failed batch is not sent again and no later batch is sent, the batches
\* before it stay delivered, and the caller is given no count at all; a count
\* is returned only when every batch completed, and is the number of messages;
\* with no message there is no call and the count returned is 0.
C15_FailurePropagatesWithoutCount ==
  /\ pc = "send_thrown"
       => /\ send_result = [kind |-> "thrown", delivered |-> -1]
          /\ Len(calls) = batch_i
          /\ Len(calls) < Len(batches)
          /\ \A k \in 1..Len(calls) : calls[k].embeds = batches[k]
          /\ delivered = CountOf(calls)
  /\ pc = "send_returned"
       => /\ send_result = [kind |-> "returned", delivered |-> Len(embeds)]
          /\ CountOf(calls) = Len(embeds)
          /\ embeds = << >> => calls = << >>
  /\ pc \in {"send_called", "send_awaiting"} => send_result.kind = "pending"

\* C15 witness: the third call of a delivery was rejected after two completed
C15_ThirdCallRejected ==
  /\ pc = "send_thrown"
  /\ Len(calls) = 2
  /\ Len(batches) = 3
  /\ send_result.kind = "thrown"

\* C16 as stated: every run that starts eventually finishes and clears the run
\* guard, whatever the remote endpoints do.
C16_EveryRunFinishes == is_running ~> ~is_running

\* C17 as stated: after a run that delivered every batch and wrote the state,
\* the persisted key set is the loaded key set united with the keys of the
\* run's unseen items, one message was posted per unseen item in filter order,
\* and the records persisted before are unchanged.
C17_SuccessfulRunPersists ==
  (RunEnded /\ outcome = "sent" /\ ~save_failed)
    => /\ DOMAIN file.nk = (DOMAIN loaded.nk) \cup KeysOf(new_items)
       /\ Len(Flatten(calls)) = Len(new_items)
       /\ \A i \in 1..Len(new_items) :
            /\ i <= Len(Flatten(calls))
            /\ EmbedKey(Flatten(calls)[i]) = new_items[i].internal_key
            /\ Flatten(calls)[i].url = new_items[i].url
       /\ \A k \in DOMAIN file_at_start.nk :
            k \in DOMAIN file.nk /\ file.nk[k] = file_at_start.nk[k]

\* C18 as stated: while every write of notified.json has succeeded (nothing
\* else alters the file), no internal key is in two completed webhook calls,
\* neither of one run nor of two runs.
C18_NeverPostedTwice ==
  ~writes_failed
    => /\ CallKeys(calls) \cap posted_before = {}
       /\ \A a, b \in 1..Len(calls) :
            a # b => CallKeys(<<calls[a]>>) \cap CallKeys(<<calls[b]>>) = {}

\* C19 as stated: within one run no two posted messages carry the same
\* internal key, and the filter returns no two items of the same key.
C19_OneMessagePerKey ==
  /\ \A i, j \in 1..Len(Flatten(calls)) :
       i # j => EmbedKey(Flatten(calls)[i]) # EmbedKey(Flatten(calls)[j])
  /\ \A i, j \in 1..Len(new_items) :
       i # j => new_items[i].internal_key # new_items[j].internal_key

\* C20: every record of notified.json that a run wrote (the file the process
\* started with holds none when it starts empty) has the key of an item whose
\* message was in a webhook call that completed, and a run that failed leaves
\* notified.json as it found it, its in-memory state being the loaded one.
C20_PersistedOnlyIfDelivered ==
  /\ \A k \in DOMAIN file.nk :
       file.nk[k] >= 1 => k \in posted_before \cup CallKeys(calls)
  /\ (RunEnded /\ outcome \in {"post_error", "filter_error"})
       => file = file_at_start /\ state = loaded

\* C20 witness: a run that began with the records of an earlier run failed
\* after its first webhook call completed
C20_FailedRunAfterSavedRun ==
  /\ RunEnded
  /\ outcome = "post_error"
  /\ Len(calls) >= 1
  /\ \E k \in DOMAIN file.nk : file.nk[k] >= 1 /\ k \in posted_before

===========================================================================
